---- MODULE Spec2Model ----
(***************************************************************************)
(* A model of SystemLayer, the UI chrome of <amp-story>                    *)
(* (extensions/amp-story/0.1/system-layer.js).                             *)
(*                                                                         *)
(* The state is the fields of one SystemLayer object, the DOM subtree it   *)
(* owns, the queue of the vsync service's deferred mutations and the calls *)
(* received by the developer-log collaborators.  JavaScript runs each      *)
(* method and each callback to completion, so each is one action.          *)
(***************************************************************************)
EXTENDS Integers, Sequences, FiniteSets, TLC

VARIABLES
    development,        \* getMode().development, read-only configuration
    isBuilt_,
    root_,
    exitFullScreenBtn_,
    closeBookendBtn_,
    muteAudioBtn_,
    unmuteAudioBtn_,
    leftButtonTray_,
    dom,                \* the subtree under root_, in document order
    listeners,          \* click listeners registered on root_
    renderCount,        \* calls of renderAsElement so far
    progressBar,        \* what the ProgressBar collaborator was told
    queue,              \* mutations passed to vsync.mutate, not yet run
    devCalls,           \* calls made on developerButtons_ / developerLog_
    lastArg,            \* per button, the argument of the last visibility call
    firstRoot,          \* what the first build call returned
    lastOp              \* the operation that ran last, and its outcome

vars == <<development, isBuilt_, root_, exitFullScreenBtn_, closeBookendBtn_,
          muteAudioBtn_, unmuteAudioBtn_, leftButtonTray_, dom, listeners,
          renderCount, progressBar, queue, devCalls, lastArg, firstRoot,
          lastOp>>

fields == <<isBuilt_, root_, exitFullScreenBtn_, closeBookendBtn_,
            muteAudioBtn_, unmuteAudioBtn_, leftButtonTray_>>

handles == <<exitFullScreenBtn_, closeBookendBtn_, muteAudioBtn_,
             unmuteAudioBtn_, leftButtonTray_>>

(***************************************************************************)
(* Bounds of the model.                                                    *)
(***************************************************************************)
MaxPageCount == 1       \* build(pageCount), setActivePageIndex(i): 0..MaxPageCount
MaxQueue == 3           \* deferred mutations waiting for one flush
MaxEntries == 2         \* length of the list given to logAll
MaxDevCalls == 4        \* length of the recorded collaborator calls
MaxExtraDepth == 1      \* elements nested below a node of the subtree

LogEntries == {"a", "b"}
ContextStrings == {"page-1"}

(***************************************************************************)
(* Elements.  An element is named by the render that created it and its    *)
(* place in the template; null is NullElement.                             *)
(***************************************************************************)
NullElement == [gen |-> 0, node |-> "null"]

Elem(gen, node) == [gen |-> gen, node |-> node]

MUTE_CLASS == "i-amphtml-story-mute-audio-control"

UNMUTE_CLASS == "i-amphtml-story-unmute-audio-control"

FULLSCREEN_CLASS == "i-amphtml-story-exit-fullscreen"

CLOSE_CLASS == "i-amphtml-story-bookend-close"

BUTTON_CLASS == "i-amphtml-story-button"

LEFT_TRAY_CLASS == "i-amphtml-story-ui-left"

InteractiveClasses == {FULLSCREEN_CLASS, CLOSE_CLASS, MUTE_CLASS, UNMUTE_CLASS}

\* The template, flattened in document order: each element with its parent.
TEMPLATE ==
    << [node |-> "aside", parent |-> "null",
        classes |-> {"i-amphtml-story-system-layer"}, hidden |-> FALSE],
       [node |-> "ui-left", parent |-> "aside",
        classes |-> {LEFT_TRAY_CLASS}, hidden |-> FALSE],
       [node |-> "left-unmute", parent |-> "ui-left",
        classes |-> {UNMUTE_CLASS, BUTTON_CLASS}, hidden |-> FALSE],
       [node |-> "left-mute", parent |-> "ui-left",
        classes |-> {MUTE_CLASS, BUTTON_CLASS}, hidden |-> FALSE],
       [node |-> "ui-right", parent |-> "aside",
        classes |-> {"i-amphtml-story-ui-right"}, hidden |-> FALSE],
       [node |-> "right-unmute", parent |-> "ui-right",
        classes |-> {UNMUTE_CLASS, BUTTON_CLASS}, hidden |-> FALSE],
       [node |-> "right-mute", parent |-> "ui-right",
        classes |-> {MUTE_CLASS, BUTTON_CLASS}, hidden |-> FALSE],
       [node |-> "exit-fullscreen", parent |-> "ui-right",
        classes |-> {FULLSCREEN_CLASS, BUTTON_CLASS}, hidden |-> TRUE],
       [node |-> "bookend-close", parent |-> "ui-right",
        classes |-> {CLOSE_CLASS, BUTTON_CLASS}, hidden |-> TRUE] >>

(***************************************************************************)
(* The DOM operations the component uses.  A subtree is the sequence of    *)
(* its elements in document order.                                         *)
(***************************************************************************)
\* renderAsElement(doc, TEMPLATE): a fresh element per template entry.
renderAsElement(gen) ==
    [i \in 1..Len(TEMPLATE) |->
        [el |-> Elem(gen, TEMPLATE[i].node),
         parent |-> IF TEMPLATE[i].parent = "null" THEN NullElement
                    ELSE Elem(gen, TEMPLATE[i].parent),
         classes |-> TEMPLATE[i].classes,
         hidden |-> TEMPLATE[i].hidden]]

\* An element built by a collaborator: opaque, none of the component's classes.
WidgetNode(el, parent) ==
    [el |-> el, parent |-> parent, classes |-> {}, hidden |-> FALSE]

IndexOf(d, el) ==
    LET at == {i \in 1..Len(d) : d[i].el = el}
    IN IF at = {} THEN 0 ELSE CHOOSE i \in at : TRUE

\* el.parentElement, null for the root and for an element not in the subtree
ParentOf(d, el) ==
    LET at == {i \in 1..Len(d) : d[i].el = el}
    IN IF at = {} THEN NullElement ELSE d[CHOOSE i \in at : TRUE].parent

RECURSIVE IsInside(_, _, _)
\* el is anc or a descendant of anc
IsInside(d, el, anc) ==
    IF el = anc THEN TRUE
    ELSE IF el = NullElement THEN FALSE
    ELSE IsInside(d, ParentOf(d, el), anc)

InsertAt(d, i, n) == SubSeq(d, 1, i - 1) \o <<n>> \o SubSeq(d, i, Len(d))

\* parent.insertBefore(child, parent.firstChild)
insertBeforeFirstChild(d, parent, child) ==
    InsertAt(d, IndexOf(d, parent) + 1, WidgetNode(child, parent))

\* parent.appendChild(child): after the last element inside parent
appendChild(d, parent, child) ==
    LET inside == {i \in 1..Len(d) : IsInside(d, d[i].el, parent)}
        last == CHOOSE i \in inside : \A j \in inside : j <= i
    IN InsertAt(d, last + 1, WidgetNode(child, parent))

\* A querySelector whose selector matches nothing.
querySelector_none(d, root, cls) == NullElement

\* root.querySelector('.' + cls): the first descendant bearing cls, or null
querySelector(d, root, cls) ==
    LET hits == {i \in 1..Len(d) : /\ d[i].el # root
                                   /\ IsInside(d, d[i].el, root)
                                   /\ cls \in d[i].classes}
    IN IF hits = {} THEN NullElement
       ELSE d[CHOOSE i \in hits : \A j \in hits : i <= j].el

\* el.setAttribute('hidden', 'hidden') / el.removeAttribute('hidden')
SetHidden(d, el, isHidden) ==
    [i \in 1..Len(d) |-> IF d[i].el = el THEN [d[i] EXCEPT !.hidden = isHidden]
                         ELSE d[i]]

NoOp == [op |-> "init", arg |-> <<>>, threw |-> FALSE, ret |-> NullElement,
         events |-> <<>>]

Op(name, arg) == [NoOp EXCEPT !.op = name, !.arg = arg]

Init ==
    /\ development \in BOOLEAN
    /\ isBuilt_ = FALSE
    /\ root_ = NullElement
    /\ exitFullScreenBtn_ = NullElement
    /\ closeBookendBtn_ = NullElement
    /\ muteAudioBtn_ = NullElement
    /\ unmuteAudioBtn_ = NullElement
    /\ leftButtonTray_ = NullElement
    /\ dom = <<>>
    /\ listeners = 0
    /\ renderCount = 0
    /\ progressBar = [buildCalls |-> 0, pageCount |-> -1, activePageIndex |-> -1]
    /\ queue = <<>>
    /\ devCalls = <<>>
    /\ lastArg = [exit |-> <<>>, close |-> <<>>]
    /\ firstRoot = NullElement
    /\ lastOp = NoOp


(***************************************************************************)
(* build and getRoot.                                                      *)
(***************************************************************************)
\* buildForDevelopmentMode_: the two developer widgets, in development mode
buildForDevelopmentMode_(d, root, tray, gen) ==
    IF ~development THEN d
    ELSE LET withButtons ==
                CHOOSE d1 \in {appendChild(d, tray, Elem(gen, "developer-buttons"))} :
                    TRUE
         IN appendChild(withButtons, root, Elem(gen, "developer-log"))

\* The body of build after the isBuilt_ test.  leftButtonTray_.appendChild
\* throws on a null tray in development mode, and leaves what was assigned.
firstBuild(pageCount) ==
    \E gen \in {renderCount + 1} :
    \E d0 \in {renderAsElement(gen)} :
    \E root \in {d0[1].el} :
    \E d1 \in {insertBeforeFirstChild(d0, root, Elem(gen, "progress-bar"))} :
    \E tray \in {querySelector(d1, root, LEFT_TRAY_CLASS)} :
    \E throws \in {development /\ tray = NullElement} :
    \E d2 \in {IF throws THEN d1
               ELSE buildForDevelopmentMode_(d1, root, tray, gen)} :
       /\ isBuilt_' = TRUE
       /\ renderCount' = gen
       /\ root_' = root
       /\ progressBar' = [progressBar EXCEPT !.buildCalls = @ + 1,
                                             !.pageCount = pageCount]
       /\ leftButtonTray_' = tray
       /\ dom' = d2
       /\ exitFullScreenBtn_' =
            IF throws THEN exitFullScreenBtn_
            ELSE querySelector(d2, root, FULLSCREEN_CLASS)
       /\ closeBookendBtn_' =
            IF throws THEN closeBookendBtn_
            ELSE querySelector(d2, root, CLOSE_CLASS)
       /\ listeners' = IF throws THEN 0 ELSE 1
       /\ lastOp' = [Op("build", pageCount) EXCEPT
                        !.threw = throws,
                        !.ret = IF throws THEN NullElement ELSE root]
       /\ firstRoot' = IF firstRoot = NullElement /\ ~throws THEN root
                       ELSE firstRoot
       /\ UNCHANGED <<development, muteAudioBtn_, unmuteAudioBtn_, queue,
                      devCalls, lastArg>>

\* build called on a built component: return this.getRoot()
builtAlready(pageCount) ==
    /\ lastOp' = [Op("build", pageCount) EXCEPT
                     !.threw = (root_ = NullElement), !.ret = root_]
    /\ firstRoot' = IF firstRoot = NullElement THEN root_ ELSE firstRoot
    /\ UNCHANGED <<development, fields, dom, listeners, renderCount,
                   progressBar, queue, devCalls, lastArg>>

\* A build that renders again on every call.
build_noGuard(pageCount) == firstBuild(pageCount)

build(pageCount) ==
    IF isBuilt_ THEN builtAlready(pageCount) ELSE firstBuild(pageCount)

\* getRoot(): dev().assertElement(this.root_)
getRoot ==
    /\ lastOp' = [Op("getRoot", <<>>) EXCEPT
                     !.threw = (root_ = NullElement), !.ret = root_]
    /\ UNCHANGED <<development, fields, dom, listeners, renderCount,
                   progressBar, queue, devCalls, lastArg, firstRoot>>

\* setActivePageIndex: forwarded to the progress bar as given
setActivePageIndex(pageIndex) ==
    /\ progressBar' = [progressBar EXCEPT !.activePageIndex = pageIndex]
    /\ lastOp' = Op("setActivePageIndex", pageIndex)
    /\ UNCHANGED <<development, fields, dom, listeners, renderCount, queue,
                   devCalls, lastArg, firstRoot>>

(***************************************************************************)
(* The click listener.                                                     *)
(***************************************************************************)
RECURSIVE AncestorClasses(_, _)
\* the class sets of el and of its ancestors in the subtree, el first
AncestorClasses(d, el) ==
    IF el = NullElement \/ IndexOf(d, el) = 0 THEN <<>>
    ELSE <<d[IndexOf(d, el)].classes>> \o AncestorClasses(d, ParentOf(d, el))

\* target.matches('.cls, .cls *'): the target or an ancestor bears cls
matches(chain, cls) == \E i \in 1..Len(chain) : cls \in chain[i]

StopPropagation ==
    [kind |-> "stopPropagation", from |-> NullElement, type |-> "",
     bubbles |-> FALSE]

Dispatched(from, type, bubbles) ==
    [kind |-> "dispatch", from |-> from, type |-> type, bubbles |-> bubbles]

\* A dispatch_ that dispatches first and stops the click afterwards.
dispatch_late(eventType) ==
    <<Dispatched(root_, eventType, TRUE), StopPropagation>>

\* dispatch_(eventType, e)
dispatch_(eventType) ==
    <<StopPropagation, Dispatched(root_, eventType, TRUE)>>

\* A listener that treats every click as a click on the mute button.
clickListener_default(chain) ==
    IF matches(chain, FULLSCREEN_CLASS) THEN dispatch_("EXIT_FULLSCREEN")
    ELSE IF matches(chain, CLOSE_CLASS) THEN dispatch_("CLOSE_BOOKEND")
    ELSE IF matches(chain, UNMUTE_CLASS) THEN dispatch_("UNMUTE")
    ELSE dispatch_("MUTE")

\* The listener of addEventHandlers_: what one click does, in order.
clickListener(chain) ==
    IF matches(chain, FULLSCREEN_CLASS) THEN dispatch_("EXIT_FULLSCREEN")
    ELSE IF matches(chain, CLOSE_CLASS) THEN dispatch_("CLOSE_BOOKEND")
    ELSE IF matches(chain, MUTE_CLASS) THEN dispatch_("MUTE")
    ELSE IF matches(chain, UNMUTE_CLASS) THEN dispatch_("UNMUTE")
    ELSE <<>>

RECURSIVE Times(_, _)
Times(n, s) == IF n = 0 THEN <<>> ELSE s \o Times(n - 1, s)

\* Elements nested below a node of the subtree bear at most one of the classes.
ExtraClassSets == {{}} \cup {{c} : c \in InteractiveClasses}

ExtraChains == UNION {[1..n -> ExtraClassSets] : n \in 0..MaxExtraDepth}

\* A click whose target is the element `extra` levels below dom[i] (dom[i]
\* itself when extra is empty); every listener on the root runs.
click(i, extra) ==
    LET chain == extra \o AncestorClasses(dom, dom[i].el)
    IN /\ lastOp' = [Op("click", [node |-> dom[i].el, chain |-> chain]) EXCEPT
                        !.events = Times(listeners, clickListener(chain))]
       /\ UNCHANGED <<development, fields, dom, listeners, renderCount,
                      progressBar, queue, devCalls, lastArg, firstRoot>>


(***************************************************************************)
(* The vsync service: mutate(fn) queues fn, and the next frame runs the    *)
(* queued functions in the order they were queued.                         *)
(***************************************************************************)
Task(kind, el, isHidden, entries) ==
    [kind |-> kind, el |-> el, isHidden |-> isHidden, entries |-> entries]

\* vsync.mutate(fn)
mutate(q, task) == Append(q, task)

(***************************************************************************)
(* Visibility of the exit-fullscreen and close-bookend buttons.            *)
(***************************************************************************)
\* A toggleHiddenAttribute that writes the opposite attribute.
toggleHiddenAttribute_inverted(q, el, isHidden) ==
    mutate(q, Task("toggleHidden", el, ~isHidden, <<>>))

\* toggleHiddenAttribute(vsync, el, isHidden)
toggleHiddenAttribute(q, el, isHidden) ==
    mutate(q, Task("toggleHidden", el, isHidden, <<>>))

\* One visibility call: dev().assertElement(el) throws on a null handle,
\* before anything is scheduled.
VisibilityCall(name, button, el, isEnabled) ==
    /\ Len(queue) < MaxQueue
    /\ IF el = NullElement
       THEN /\ lastOp' = [Op(name, isEnabled) EXCEPT !.threw = TRUE]
            /\ UNCHANGED <<queue, lastArg>>
       ELSE /\ queue' = toggleHiddenAttribute(queue, el, ~isEnabled)
            /\ lastArg' = [lastArg EXCEPT ![button] = <<isEnabled>>]
            /\ lastOp' = Op(name, isEnabled)
    /\ UNCHANGED <<development, fields, dom, listeners, renderCount,
                   progressBar, devCalls, firstRoot>>

\* setInFullScreen(inFullScreen) is toggleExitFullScreenBtn_(inFullScreen)
setInFullScreen(inFullScreen) ==
    VisibilityCall("setInFullScreen", "exit", exitFullScreenBtn_, inFullScreen)

\* A toggleCloseBookendButton that was copied from the exit-fullscreen one.
toggleCloseBookendButton_copied(isEnabled) ==
    VisibilityCall("toggleCloseBookendButton", "close", exitFullScreenBtn_,
                   isEnabled)

\* A toggleCloseBookendButton that reads a handle build never assigns.
toggleCloseBookendButton_unassigned(isEnabled) ==
    VisibilityCall("toggleCloseBookendButton", "close", muteAudioBtn_,
                   isEnabled)

\* toggleCloseBookendButton(isEnabled)
toggleCloseBookendButton(isEnabled) ==
    VisibilityCall("toggleCloseBookendButton", "close", closeBookendBtn_,
                   isEnabled)

(***************************************************************************)
(* The developer log.                                                      *)
(***************************************************************************)
Call(to, method, arg) == [to |-> to, method |-> method, arg |-> arg]

\* A logInternal_ that tells the log panel first.
logInternal_panelFirst(calls, logEntry) ==
    calls \o <<Call("panel", "log", logEntry), Call("buttons", "log", logEntry)>>

\* logInternal_(logEntry): the button set, then the log panel
logInternal_(calls, logEntry) ==
    calls \o <<Call("buttons", "log", logEntry), Call("panel", "log", logEntry)>>

RECURSIVE forEachLogInternal(_, _)
\* logEntries.forEach(logEntry => this.logInternal_(logEntry))
forEachLogInternal(calls, logEntries) ==
    IF logEntries = <<>> THEN calls
    ELSE forEachLogInternal(logInternal_(calls, Head(logEntries)),
                            Tail(logEntries))

RECURSIVE PendingEntries(_)
\* how many entries the queued logAll mutations hold
PendingEntries(q) ==
    IF q = <<>> THEN 0 ELSE Len(Head(q).entries) + PendingEntries(Tail(q))

\* room for n more collaborator calls within the bound
Room(n) == Len(devCalls) + 2 * PendingEntries(queue) + n <= MaxDevCalls

EntryLists == UNION {[1..n -> LogEntries] : n \in 0..MaxEntries}

DevUnchanged ==
    UNCHANGED <<development, fields, dom, listeners, renderCount, progressBar,
                lastArg, firstRoot>>

\* logAll(logEntries)
logAll(logEntries) ==
    /\ lastOp' = Op("logAll", logEntries)
    /\ IF ~development THEN UNCHANGED <<queue, devCalls>>
       ELSE /\ Len(queue) < MaxQueue
            /\ Room(2 * Len(logEntries))
            /\ queue' = mutate(queue, Task("logAll", NullElement, FALSE,
                                            logEntries))
            /\ UNCHANGED devCalls
    /\ DevUnchanged

\* A log that goes through vsync as logAll does.
log_deferred(logEntry) ==
    /\ lastOp' = Op("log", logEntry)
    /\ IF ~development THEN UNCHANGED <<queue, devCalls>>
       ELSE /\ Len(queue) < MaxQueue
            /\ Room(2)
            /\ queue' = mutate(queue, Task("logAll", NullElement, FALSE,
                                            <<logEntry>>))
            /\ UNCHANGED devCalls
    /\ DevUnchanged

\* A log without the development-mode test.
log_noGuard(logEntry) ==
    /\ lastOp' = Op("log", logEntry)
    /\ Room(2)
    /\ devCalls' = logInternal_(devCalls, logEntry)
    /\ UNCHANGED queue
    /\ DevUnchanged

\* log(logEntry)
log(logEntry) ==
    /\ lastOp' = Op("log", logEntry)
    /\ IF ~development THEN UNCHANGED <<queue, devCalls>>
       ELSE /\ Room(2)
            /\ devCalls' = logInternal_(devCalls, logEntry)
            /\ UNCHANGED queue
    /\ DevUnchanged

\* resetDeveloperLogs()
resetDeveloperLogs ==
    /\ lastOp' = Op("resetDeveloperLogs", <<>>)
    /\ IF ~development THEN UNCHANGED <<queue, devCalls>>
       ELSE /\ Room(2)
            /\ devCalls' = devCalls \o <<Call("buttons", "clear", ""),
                                         Call("panel", "clear", "")>>
            /\ UNCHANGED queue
    /\ DevUnchanged

\* One call forwarded to the log panel, in development mode only.
PanelCall(name, method, arg) ==
    /\ lastOp' = Op(name, arg)
    /\ IF ~development THEN UNCHANGED <<queue, devCalls>>
       ELSE /\ Room(1)
            /\ devCalls' = Append(devCalls, Call("panel", method, arg))
            /\ UNCHANGED queue
    /\ DevUnchanged

\* setDeveloperLogContextString(contextString)
setDeveloperLogContextString(contextString) ==
    PanelCall("setDeveloperLogContextString", "setContextString", contextString)

\* toggleDeveloperLog_()
toggleDeveloperLog_ == PanelCall("toggleDeveloperLog_", "toggle", "")

\* hideDeveloperLog()
hideDeveloperLog == PanelCall("hideDeveloperLog", "hide", "")

(***************************************************************************)
(* The frame in which vsync runs the queued mutations.                     *)
(***************************************************************************)
RECURSIVE DomAfter(_, _)
\* the subtree after the queued toggleHiddenAttribute mutations, in order
DomAfter(q, d) ==
    IF q = <<>> THEN d
    ELSE DomAfter(Tail(q),
                  IF Head(q).kind = "toggleHidden"
                  THEN SetHidden(d, Head(q).el, Head(q).isHidden)
                  ELSE d)

RECURSIVE CallsAfter(_, _)
\* the collaborator calls after the queued logAll mutations, in order
CallsAfter(q, calls) ==
    IF q = <<>> THEN calls
    ELSE CallsAfter(Tail(q),
                    IF Head(q).kind = "logAll"
                    THEN forEachLogInternal(calls, Head(q).entries)
                    ELSE calls)

Flush ==
    /\ queue # <<>>
    /\ dom' = DomAfter(queue, dom)
    /\ devCalls' = CallsAfter(queue, devCalls)
    /\ queue' = <<>>
    /\ lastOp' = Op("flush", queue)
    /\ UNCHANGED <<development, fields, listeners, renderCount, progressBar,
                   lastArg, firstRoot>>

(***************************************************************************)
(* Specifications.                                                         *)
(***************************************************************************)
\* Life cycle, progress and visibility.
Next ==
    \/ \E pageCount \in 0..MaxPageCount : build(pageCount)
    \/ getRoot
    \/ \E pageIndex \in 0..MaxPageCount : setActivePageIndex(pageIndex)
    \/ \E inFullScreen \in BOOLEAN : setInFullScreen(inFullScreen)
    \/ \E isEnabled \in BOOLEAN : toggleCloseBookendButton(isEnabled)
    \/ Flush

Spec == Init /\ [][Next]_vars

\* Clicks inside the built subtree.
NextClick ==
    \/ \E pageCount \in 0..MaxPageCount : build(pageCount)
    \/ \E i \in 1..Len(dom), extra \in ExtraChains :
            listeners > 0 /\ click(i, extra)

SpecClick == Init /\ [][NextClick]_vars

\* The developer log.
NextDevLog ==
    \/ \E pageCount \in 0..MaxPageCount : build(pageCount)
    \/ \E logEntries \in EntryLists : logAll(logEntries)
    \/ \E logEntry \in LogEntries : log(logEntry)
    \/ resetDeveloperLogs
    \/ \E contextString \in ContextStrings :
            setDeveloperLogContextString(contextString)
    \/ toggleDeveloperLog_
    \/ hideDeveloperLog
    \/ Flush

SpecDevLog == Init /\ [][NextDevLog]_vars


(***************************************************************************)
(* Properties.                                                             *)
(***************************************************************************)
\* the hidden attribute of the element bearing cls is present
HiddenAttr(d, cls) == \E i \in 1..Len(d) : cls \in d[i].classes /\ d[i].hidden

ClassesOf(d, el) == IF IndexOf(d, el) = 0 THEN {} ELSE d[IndexOf(d, el)].classes

ClassOrder == <<FULLSCREEN_CLASS, CLOSE_CLASS, MUTE_CLASS, UNMUTE_CLASS>>

EventOrder == <<"EXIT_FULLSCREEN", "CLOSE_BOOKEND", "MUTE", "UNMUTE">>

ButtonClass == [exit |-> FULLSCREEN_CLASS, close |-> CLOSE_CLASS]

Buttons == {"exit", "close"}

\* C1: build is idempotent.  The template is rendered, the progress bar is
\* built and a click listener is attached at most once; every build call
\* returns, without throwing, the root the first call returned; the built
\* flag never goes back to false; and a build call on a built component
\* changes no field, no element, no listener and nothing of the progress bar.
C1_BuildIdempotent ==
    /\ [](/\ renderCount <= 1
          /\ progressBar.buildCalls <= 1
          /\ listeners <= 1
          /\ lastOp.op = "build" =>
                /\ ~lastOp.threw
                /\ isBuilt_
                /\ lastOp.ret # NullElement
                /\ lastOp.ret = root_
                /\ lastOp.ret = firstRoot)
    /\ [][/\ isBuilt_ => isBuilt_'
          /\ (isBuilt_ /\ lastOp'.op = "build") =>
                UNCHANGED <<fields, dom, listeners, renderCount, progressBar,
                            queue>>]_vars

\* C1 witness: a later build call, with another pageCount than the first
\* call's, has returned the first call's root.
C1_Witness ==
    /\ lastOp.op = "build"
    /\ lastOp.arg # progressBar.pageCount
    /\ lastOp.ret = firstRoot
    /\ firstRoot # NullElement

\* C2: a click whose target bears, or descends from an element bearing, one
\* of the four classes stops the click's propagation and then dispatches
\* exactly one event from the root, bubbling, of the type of the first class
\* (in the order fullscreen-exit, bookend-close, mute, unmute) that matches;
\* no click dispatches more than one event.
C2_ClickDispatchesOneEvent ==
    lastOp.op = "click" =>
        LET chain == lastOp.arg.chain
            bears(n) == \E k \in 1..Len(chain) : ClassOrder[n] \in chain[k]
        IN /\ \A n \in 1..4 :
                (bears(n) /\ \A m \in 1..(n - 1) : ~bears(m)) =>
                    lastOp.events =
                        << [kind |-> "stopPropagation", from |-> NullElement,
                            type |-> "", bubbles |-> FALSE],
                           [kind |-> "dispatch", from |-> root_,
                            type |-> EventOrder[n], bubbles |-> TRUE] >>
           /\ Cardinality({k \in 1..Len(lastOp.events) :
                               lastOp.events[k].kind = "dispatch"}) <= 1
           /\ root_ # NullElement

\* C2 witness: a click on an element bearing the mute class nested in the
\* exit-fullscreen button: EXIT_FULLSCREEN, the first match, is dispatched.
C2_Witness ==
    /\ lastOp.op = "click"
    /\ Len(lastOp.arg.chain) > 1
    /\ lastOp.arg.chain[1] = {MUTE_CLASS}
    /\ lastOp.arg.node.node = "exit-fullscreen"
    /\ Len(lastOp.events) = 2
    /\ lastOp.events[2].type = "EXIT_FULLSCREEN"

\* C3: a click whose target neither bears nor descends from an element
\* bearing any of the four classes dispatches nothing and does not stop the
\* click's propagation.
C3_OtherClicksIgnored ==
    (/\ lastOp.op = "click"
     /\ \A k \in 1..Len(lastOp.arg.chain) :
            lastOp.arg.chain[k] \cap InteractiveClasses = {})
        => lastOp.events = <<>>

\* C3 witness: a click on the progress bar was ignored.
C3_Witness ==
    /\ lastOp.op = "click"
    /\ lastOp.arg.node.node = "progress-bar"
    /\ Len(lastOp.arg.chain) = 2
    /\ lastOp.events = <<>>

\* what a visibility call on the button bearing cls does, as one step
VisibilityStep(name, cls) ==
    (lastOp'.op = name /\ ~lastOp'.threw) =>
        /\ dom' = dom
        /\ Len(queue') = Len(queue) + 1
        /\ SubSeq(queue', 1, Len(queue)) = queue
        /\ queue'[Len(queue')].kind = "toggleHidden"
        /\ queue'[Len(queue')].isHidden = ~lastOp'.arg
        /\ cls \in ClassesOf(dom, queue'[Len(queue')].el)

\* C4: setInFullScreen and toggleCloseBookendButton write nothing when they
\* are called: each schedules one mutation on its button, and the hidden
\* attribute keeps its value (present, after build) until the flush; after
\* the flush the attribute of a button is absent if its last call had the
\* argument true and present if it had the argument false.
C4_VisibilityDeferred ==
    [][/\ VisibilityStep("setInFullScreen", FULLSCREEN_CLASS)
       /\ VisibilityStep("toggleCloseBookendButton", CLOSE_CLASS)
       /\ (~isBuilt_ /\ isBuilt_') =>
            HiddenAttr(dom', FULLSCREEN_CLASS) /\ HiddenAttr(dom', CLOSE_CLASS)
       /\ lastOp'.op = "flush" =>
            \A b \in Buttons :
                lastArg[b] # <<>> =>
                    HiddenAttr(dom', ButtonClass[b]) = ~lastArg[b][1]]_vars

\* C4 witness: after setInFullScreen(true) and the flush, the exit-fullscreen
\* button is no longer hidden, and the close button, never touched, still is.
C4_Witness ==
    /\ lastOp.op = "flush"
    /\ lastArg.exit = <<TRUE>>
    /\ lastArg.close = <<>>
    /\ ~HiddenAttr(dom, FULLSCREEN_CLASS)
    /\ HiddenAttr(dom, CLOSE_CLASS)

\* C5: with development mode disabled no developer-log operation has any
\* effect: the collaborators are never called, nothing is scheduled, no
\* operation throws, build inserts no developer widget, and a developer-log
\* call changes no field, no element and no queue.
C5_DevLogDisabledNoOp ==
    /\ [](~development =>
            /\ devCalls = <<>>
            /\ queue = <<>>
            /\ ~lastOp.threw
            /\ \A i \in 1..Len(dom) :
                    dom[i].el.node \notin {"developer-buttons", "developer-log"})
    /\ [][(/\ ~development
           /\ lastOp'.op \in {"logAll", "log", "resetDeveloperLogs",
                              "setDeveloperLogContextString",
                              "toggleDeveloperLog_", "hideDeveloperLog"})
            => UNCHANGED <<fields, dom, listeners, renderCount, progressBar,
                           queue, devCalls>>]_vars

\* C5 witness: logAll with two entries was called on a built component with
\* development mode disabled.
C5_Witness ==
    /\ ~development
    /\ isBuilt_
    /\ lastOp.op = "logAll"
    /\ Len(lastOp.arg) = 2

RECURSIVE QueuedEntries(_)
\* the entries of the queued logAll mutations, in the order of the queue
QueuedEntries(q) ==
    IF q = <<>> THEN <<>> ELSE Head(q).entries \o QueuedEntries(Tail(q))

\* every entry to the button set and then to the log panel, in list order
Forwarded(es) ==
    [k \in 1..(2 * Len(es)) |->
        [to |-> IF k % 2 = 1 THEN "buttons" ELSE "panel",
         method |-> "log",
         arg |-> es[(k + 1) \div 2]]]

\* C6: in development mode logAll schedules exactly one mutation and forwards
\* nothing when it is called; the flush forwards every queued entry exactly
\* once to the button set and then to the log panel, entry after entry in
\* list order.
C6_LogAllBatched ==
    [][/\ (development /\ lastOp'.op = "logAll") =>
            /\ devCalls' = devCalls
            /\ Len(queue') = Len(queue) + 1
            /\ SubSeq(queue', 1, Len(queue)) = queue
            /\ queue'[Len(queue')].entries = lastOp'.arg
       /\ lastOp'.op = "flush" =>
            /\ devCalls' = devCalls \o Forwarded(QueuedEntries(queue))
            /\ queue' = <<>>]_vars

\* C6 witness: the flush of one logAll(<<a, b>>) forwarded a and then b, each
\* to the button set and then to the panel.
C6_Witness ==
    /\ development
    /\ lastOp.op = "flush"
    /\ Len(lastOp.arg) = 1
    /\ lastOp.arg[1].entries = <<"a", "b">>
    /\ devCalls = << [to |-> "buttons", method |-> "log", arg |-> "a"],
                     [to |-> "panel", method |-> "log", arg |-> "a"],
                     [to |-> "buttons", method |-> "log", arg |-> "b"],
                     [to |-> "panel", method |-> "log", arg |-> "b"] >>

\* C7 as claimed: once built, all four button handles and the tray are
\* non-null.
C7_AllFourHandlesCached ==
    isBuilt_ =>
        /\ exitFullScreenBtn_ # NullElement
        /\ closeBookendBtn_ # NullElement
        /\ muteAudioBtn_ # NullElement
        /\ unmuteAudioBtn_ # NullElement
        /\ leftButtonTray_ # NullElement

\* C7, amended: the first build resolves the exit-fullscreen handle, the
\* close-bookend handle and the left tray, each to the element bearing its
\* class; the mute and unmute handles are never assigned and stay null; and
\* no operation on a built component changes any of the five.
C7_QueriedHandlesCached ==
    /\ [](/\ muteAudioBtn_ = NullElement
          /\ unmuteAudioBtn_ = NullElement
          /\ isBuilt_ =>
                /\ FULLSCREEN_CLASS \in ClassesOf(dom, exitFullScreenBtn_)
                /\ CLOSE_CLASS \in ClassesOf(dom, closeBookendBtn_)
                /\ LEFT_TRAY_CLASS \in ClassesOf(dom, leftButtonTray_))
    /\ [][isBuilt_ => UNCHANGED handles]_vars

\* C7 witness: mutations were flushed on a built component whose queried
\* handles are set and whose mute and unmute handles are null.
C7_Witness ==
    /\ isBuilt_
    /\ lastOp.op = "flush"
    /\ exitFullScreenBtn_.node = "exit-fullscreen"
    /\ closeBookendBtn_.node = "bookend-close"
    /\ leftButtonTray_.node = "ui-left"
    /\ muteAudioBtn_ = NullElement
    /\ unmuteAudioBtn_ = NullElement

\* C8 as claimed: there is no state in which the built flag is set, or build
\* has returned normally, while the root or a handle is unresolved.
C8_NoUnresolvedHandleOnceBuilt ==
    (isBuilt_ \/ (lastOp.op = "build" /\ ~lastOp.threw)) =>
        /\ root_ # NullElement
        /\ \A i \in 1..Len(handles) : handles[i] # NullElement

\* C8, amended: once the built flag is set the root and the three handles
\* build queries are resolved, and no build, getRoot or visibility call on a
\* built component fails its null assertion.
C8_QueriedHandlesResolved ==
    isBuilt_ =>
        /\ root_ # NullElement
        /\ leftButtonTray_ # NullElement
        /\ exitFullScreenBtn_ # NullElement
        /\ closeBookendBtn_ # NullElement
        /\ lastOp.op \in {"build", "getRoot", "setInFullScreen",
                          "toggleCloseBookendButton"} => ~lastOp.threw

\* C8 witness: toggleCloseBookendButton ran on a built component and its
\* null assertion did not fail.
C8_Witness ==
    /\ isBuilt_
    /\ lastOp.op = "toggleCloseBookendButton"
    /\ ~lastOp.threw
    /\ closeBookendBtn_ # NullElement

\* C9: when every scheduled mutation has been flushed, the hidden attribute
\* of each of the two buttons is present iff the last call targeting that
\* button had the argument false (present, as rendered, when there was no
\* such call), whatever was called on the other button.
C9_LastVisibilityCallWins ==
    (isBuilt_ /\ queue = <<>>) =>
        \A b \in Buttons :
            HiddenAttr(dom, ButtonClass[b]) =
                (IF lastArg[b] = <<>> THEN TRUE ELSE ~lastArg[b][1])

\* C9 witness: one flush ran setInFullScreen(true) and then
\* setInFullScreen(false), and a close-button call between them; the
\* exit-fullscreen button is hidden.
C9_Witness ==
    /\ lastOp.op = "flush"
    /\ Len(lastOp.arg) = 3
    /\ lastOp.arg[1].el = exitFullScreenBtn_ /\ ~lastOp.arg[1].isHidden
    /\ lastOp.arg[2].el = closeBookendBtn_ /\ ~lastOp.arg[2].isHidden
    /\ lastOp.arg[3].el = exitFullScreenBtn_ /\ lastOp.arg[3].isHidden
    /\ HiddenAttr(dom, FULLSCREEN_CLASS)
    /\ ~HiddenAttr(dom, CLOSE_CLASS)

RECURSIVE Held(_, _)
\* the entries collaborator `to` holds: those logged since its last clear
Held(calls, to) ==
    IF calls = <<>> THEN <<>>
    ELSE LET c == calls[Len(calls)]
             before == SubSeq(calls, 1, Len(calls) - 1)
         IN IF c.to # to THEN Held(before, to)
            ELSE IF c.method = "clear" THEN <<>>
            ELSE IF c.method = "log" THEN Append(Held(before, to), c.arg)
            ELSE Held(before, to)

\* C10: in development mode log forwards its entry to the button set and
\* then to the panel before it returns, and resetDeveloperLogs clears both
\* at once; neither touches the queued logAll mutations, whose entries
\* arrive only at the flush, after everything forwarded since logAll was
\* called, and are then held by both collaborators.
C10_LogOvertakesLogAll ==
    [][development =>
        /\ lastOp'.op = "log" =>
            /\ queue' = queue
            /\ devCalls' = devCalls \o
                 << [to |-> "buttons", method |-> "log", arg |-> lastOp'.arg],
                    [to |-> "panel", method |-> "log", arg |-> lastOp'.arg] >>
        /\ lastOp'.op = "resetDeveloperLogs" =>
            /\ queue' = queue
            /\ Held(devCalls', "buttons") = <<>>
            /\ Held(devCalls', "panel") = <<>>
        /\ lastOp'.op = "logAll" => devCalls' = devCalls
        /\ lastOp'.op = "flush" =>
            \A to \in {"buttons", "panel"} :
                Held(devCalls', to) = Held(devCalls, to) \o QueuedEntries(queue)
       ]_vars

\* C10 witness: logAll(<<a>>) was called, then log(b); b has reached both
\* collaborators and a has reached neither.
C10_Witness ==
    /\ development
    /\ lastOp.op = "log"
    /\ lastOp.arg = "b"
    /\ Len(queue) = 1
    /\ queue[1].entries = <<"a">>
    /\ Held(devCalls, "buttons") = <<"b">>
    /\ Held(devCalls, "panel") = <<"b">>

====
